---- MODULE Spec2Model ----
(***************************************************************************)
(* The assignment store of the territory map (hooks/useAssignments.ts):    *)
(* the undo/redo history {past, present, future}, the mutators that push a *)
(* new present, and the debounced save of present to localStorage.         *)
(*                                                                         *)
(* An assignment map (TerritoryAssignments) is a function from a set of    *)
(* region codes to entries [repName, assignedAt].  A timestamp             *)
(* (new Date().toISOString()) is the value of the clock `now` at the call. *)
(***************************************************************************)
EXTENDS Integers, Sequences, FiniteSets, TLC

\* ---------------------------------------------------------------- bounds
MAX_HISTORY == 50
MaxPushes == 2
MaxTime == 2
MaxLongPushes == 52

Codes == {"CA", "TX", "NY"}
Reps == {"Alice", "Bob"}
Names == Reps \cup {"Robert"}

VARIABLES
  history,      \* useState<HistoryState>: [past, present, future]
  isDirty,      \* useState(false), set by the save effect
  lastSaved,    \* useState<Date | null>: <<>> is null, <<t>> a date
  saveTimeout,  \* saveTimeoutRef and the pending timer's closure
  storage,      \* localStorage item STORAGE_KEY: [has, value]
  now,          \* the clock read by new Date()
  pushes,       \* number of pushState calls so far
  trail,        \* every present a push has installed, in order
  lastOp,       \* the most recent call of the hook's API and its arguments
  alertMsg,     \* what the most recent handler passed to window.alert ("" if nothing)
  thrown,       \* the most recent handler ended in an uncaught TypeError
  burst,        \* changes and storage writes since the timer was last idle
  reps,         \* useReps: the roster, id -> [name, color, territoryName]
  pendingSync,  \* SlideOutPanel: showConflictDialog and pendingSync
  csv           \* the content of the last CSV download, a sequence of lines

vars ==
  <<history, isDirty, lastSaved, saveTimeout, storage, now, pushes, trail, lastOp,
    alertMsg, thrown, burst, reps, pendingSync, csv>>

\* The state of the components around the store.
ui == <<reps, pendingSync, csv>>

past == history.past
present == history.present
future == history.future
canUndo == Len(past) > 0
canRedo == Len(future) > 0

\* ------------------------------------------------------- assignment maps
EmptyMap == [c \in {} |-> [repName |-> "", assignedAt |-> 0]]
Entry(repName, ts) == [repName |-> repName, assignedAt |-> ts]

\* What JSON.parse can leave in the place of an entry when the text was not
\* written by the store: null, or an object that has no repName.
NullEntry == [isNull |-> TRUE]
NoRepEntry == [assignedAt |-> 0]
IsNull(v) == "isNull" \in DOMAIN v

\* assignment.repName === name, for an assignment that is not null
repNameIs(v, name) == "repName" \in DOMAIN v /\ v.repName = name

\* { ...M, [code]: {repName, assignedAt} }
Upsert(M, code, repName, ts) ==
  [c \in (DOMAIN M) \cup {code} |-> IF c = code THEN Entry(repName, ts) ELSE M[c]]

\* delete next[code]
Delete(M, code) == [c \in (DOMAIN M) \ {code} |-> M[c]]

SeqRange(s) == {s[i] : i \in 1..Len(s)}

\* Faulty variant: the clock is read again for every code of the list.
RECURSIVE UpsertEachRestamped(_, _, _, _)
UpsertEachRestamped(M, codes, repName, ts) ==
  IF codes = <<>> THEN M
  ELSE UpsertEachRestamped(Upsert(M, Head(codes), repName, ts), Tail(codes), repName, ts + 1)

\* codes.forEach((code) => { next[code] = {repName, assignedAt: timestamp} })
RECURSIVE UpsertEach(_, _, _, _)
UpsertEach(M, codes, repName, ts) ==
  IF codes = <<>> THEN M
  ELSE UpsertEach(Upsert(M, Head(codes), repName, ts), Tail(codes), repName, ts)

\* The codes whose owner is repName: a full scan of the map.
owned(M, repName) == {c \in DOMAIN M : repNameIs(M[c], repName)}

SetAssignmentNext(M, code, repName, ts) == Upsert(M, code, repName, ts)

RemoveAssignmentNext(M, code) == Delete(M, code)

BulkAssignNext(M, codes, repName, ts) == UpsertEach(M, codes, repName, ts)

\* Faulty variant: nothing is removed, the sync is a plain union.
SyncRemoveNothing(M, repName, newCodesSet) == M

\* Object.entries(next).forEach: delete what repName owns outside newCodes
SyncRemoveStale(M, repName, newCodesSet) ==
  [c \in {d \in DOMAIN M : ~(repNameIs(M[d], repName) /\ d \notin newCodesSet)} |-> M[c]]

\* Faulty variant: every code outside newCodes is removed, whoever owns it.
SyncReplacesAll(M, repName, newCodes, ts) ==
  UpsertEach([c \in (DOMAIN M) \cap SeqRange(newCodes) |-> M[c]], newCodes, repName, ts)

\* Faulty variant: a listed code that another representative owns is unassigned
\* instead of reassigned.
SyncDropsConflicts(M, repName, newCodes, ts) ==
  LET kept == SyncRemoveStale(M, repName, SeqRange(newCodes))
      conflicts == {c \in (DOMAIN kept) \cap SeqRange(newCodes) : kept[c].repName # repName}
      cleared == [c \in (DOMAIN kept) \ conflicts |-> kept[c]]
  IN UpsertEach(cleared, SelectSeq(newCodes, LAMBDA c : c \notin conflicts), repName, ts)

SyncRepAssignmentsNext(M, repName, newCodes, ts) ==
  UpsertEach(SyncRemoveStale(M, repName, SeqRange(newCodes)), newCodes, repName, ts)

hasChanges(M, oldName) == \E c \in DOMAIN M : repNameIs(M[c], oldName)

\* Faulty variant: only one of the matching assignments is rewritten.
UpdateRepNameFirstOnly(M, oldName, newName) ==
  LET first == CHOOSE c \in DOMAIN M : repNameIs(M[c], oldName)
  IN [c \in DOMAIN M |-> IF c = first THEN [M[c] EXCEPT !.repName = newName] ELSE M[c]]

UpdateRepNameNext(M, oldName, newName) ==
  [c \in DOMAIN M |->
     IF repNameIs(M[c], oldName) THEN [M[c] EXCEPT !.repName = newName] ELSE M[c]]

\* ------------------------------------------------------------- history
\* Faulty variant: keeps the first n entries, evicting the newest.
SliceFirst(s, n) == IF Len(s) <= n THEN s ELSE SubSeq(s, 1, n)

\* s.slice(-n)
SliceLast(s, n) == IF Len(s) <= n THEN s ELSE SubSeq(s, Len(s) - n + 1, Len(s))

\* Faulty variant: past grows without the cap.
PushStateNoCap(h, newPresent) ==
  [past |-> Append(h.past, h.present), present |-> newPresent, future |-> <<>>]

\* Faulty variant: the redo stack survives a push.
PushStateKeepFuture(h, newPresent) ==
  [past |-> SliceLast(Append(h.past, h.present), MAX_HISTORY),
   present |-> newPresent,
   future |-> h.future]

\* Faulty variant: the cap is applied one snapshot too late.
PushStateCapOffByOne(h, newPresent) ==
  [past |-> SliceLast(Append(h.past, h.present), MAX_HISTORY + 1),
   present |-> newPresent,
   future |-> <<>>]

PushState(h, newPresent) ==
  [past |-> SliceLast(Append(h.past, h.present), MAX_HISTORY),
   present |-> newPresent,
   future |-> <<>>]

UndoState(h) ==
  IF Len(h.past) = 0 THEN h
  ELSE [past |-> SubSeq(h.past, 1, Len(h.past) - 1),
        present |-> h.past[Len(h.past)],
        future |-> <<h.present>> \o h.future]

\* Faulty variant: redo drops the old present instead of appending it to past.
RedoStateDropsPresent(h) ==
  IF Len(h.future) = 0 THEN h
  ELSE [past |-> h.past, present |-> h.future[1], future |-> Tail(h.future)]

RedoState(h) ==
  IF Len(h.future) = 0 THEN h
  ELSE [past |-> Append(h.past, h.present),
        present |-> h.future[1],
        future |-> Tail(h.future)]

\* --------------------------------------------------------- persistence
\* The item under STORAGE_KEY: kind is what JSON.parse makes of its text
\* ("text" when it does not parse), value the entries of an object or array.
NoItem == [has |-> FALSE, kind |-> "object", value |-> EmptyMap]
Item(M) == [has |-> TRUE, kind |-> "object", value |-> M]
StoredAs(kind, M) == [has |-> TRUE, kind |-> kind, value |-> M]

\* loadFromStorage: the parsed item when typeof says 'object' and it is not
\* null, {} when nothing is stored, the text does not parse or it is
\* another kind of value
loadFromStorage(st) ==
  IF st.has /\ st.kind \in {"object", "array"} THEN st.value ELSE EmptyMap

\* Faulty variant: the timer's closure holds the present of the render before.
SaveEffectStaleClosure(newPresent) ==
  /\ isDirty' = TRUE
  /\ saveTimeout' = [armed |-> TRUE, present |-> present]
  /\ UNCHANGED <<lastSaved, storage>>

\* Faulty variant: the effect does not call setIsDirty(true).
SaveEffectNotDirty(newPresent) ==
  /\ saveTimeout' = [armed |-> TRUE, present |-> newPresent]
  /\ UNCHANGED <<isDirty, lastSaved, storage>>

\* The save effect, run after a render in which history.present is a new
\* object: the pending timer is cleared, isDirty is set and a timer is armed
\* whose closure holds that present.
SaveEffect(newPresent) ==
  /\ isDirty' = TRUE
  /\ saveTimeout' = [armed |-> TRUE, present |-> newPresent]
  /\ UNCHANGED <<lastSaved, storage>>

NoRender == UNCHANGED <<isDirty, lastSaved, saveTimeout, storage>>

Op(name, repName, codes, newName, changed) ==
  [name |-> name, repName |-> repName, codes |-> codes, newName |-> newName,
   changed |-> changed]

\* Reading repName of a null entry raises a TypeError in the two mutators
\* that inspect the entries of present.
TypeErrorIn(name, M) ==
  /\ name \in {"syncRepAssignments", "updateRepName"}
  /\ \E c \in DOMAIN M : IsNull(M[c])

\* A mutator call: one pushState, then the re-render and its save effect.
Push(newPresent) ==
  /\ history' = PushState(history, newPresent)
  /\ pushes' = pushes + 1
  /\ SaveEffect(newPresent)

\* ---------------------------------------------------------- JSON files
\* A JSON value as JSON.parse returns it.  An object or array carries its
\* properties as a function of the keys (an array's keys are "0", "1", ...);
\* "isostring" is the string Date.toISOString() gives for a clock value.
JUndefined == [t |-> "undefined"]
JNull == [t |-> "null"]
JBool(b) == [t |-> "boolean", b |-> b]
JNum(n) == [t |-> "number", n |-> n]
JStr(s) == [t |-> "string", s |-> s]
JIso(ts) == [t |-> "isostring", ts |-> ts]
JObj(f) == [t |-> "object", f |-> f]
JArr(f) == [t |-> "array", f |-> f]
NoProps == [k \in {} |-> JNull]

\* typeof v
TypeOf(v) ==
  CASE v.t \in {"null", "object", "array"} -> "object"
    [] v.t \in {"string", "isostring"} -> "string"
    [] OTHER -> v.t

\* The truthiness && and || test.
Truthy(v) ==
  CASE v.t \in {"undefined", "null"} -> FALSE
    [] v.t = "boolean" -> v.b
    [] v.t = "number" -> v.n # 0
    [] v.t = "string" -> v.s # ""
    [] OTHER -> TRUE

\* v.k for a v that is not null
Get(v, k) ==
  IF v.t \in {"object", "array"} /\ k \in DOMAIN v.f THEN v.f[k] ELSE JUndefined

\* Object.entries(v): the own properties; of a string its characters (one
\* stands for all of them), of a number or boolean nothing.
ObjectEntries(v) ==
  CASE v.t \in {"object", "array"} -> v.f
    [] v.t = "string" /\ v.s # "" -> [k \in {"0"} |-> JStr("c")]
    [] v.t = "isostring" -> [k \in {"0"} |-> JStr("c")]
    [] OTHER -> NoProps

\* The value a parsed string or number is in memory.
FromJSON(v) ==
  CASE v.t = "isostring" -> v.ts
    [] v.t = "string" -> v.s
    [] v.t = "number" -> v.n
    [] v.t = "boolean" -> v.b

\* JSON.stringify followed by JSON.parse, of an entry and of a map.
EntryToJSON(v) ==
  IF IsNull(v) THEN JNull
  ELSE JObj([k \in DOMAIN v |-> IF k = "repName" THEN JStr(v[k]) ELSE JIso(v[k])])

ToJSON(M) == JObj([c \in DOMAIN M |-> EntryToJSON(M[c])])

\* A file the user picks: its text parses to data, or does not parse.
TextFile(data) == [parses |-> TRUE, data |-> data]
Unparseable == [parses |-> FALSE, data |-> JUndefined]

\* exportAssignmentsAsJSON: the envelope written to the downloaded file.
exportAssignmentsAsJSON(assignments, repList, t) ==
  LET count(r) == Cardinality(owned(assignments, r))
  IN TextFile(JObj(
       [version |-> JStr("2.0"),
        exportedAt |-> JIso(t),
        assignments |-> ToJSON(assignments),
        metadata |-> JObj(
          [totalStates |-> JNum(Cardinality(DOMAIN assignments)),
           totalAssigned |-> JNum(Cardinality(DOMAIN assignments)),
           repSummary |-> JArr([r \in {q \in repList : count(q) > 0} |->
                                  JObj([name |-> JStr(r), count |-> JNum(count(r))])])])]))

\* The structure test of the validation loop.
validEntry(value) ==
  /\ TypeOf(value) = "object"
  /\ value.t # "null"
  /\ "repName" \in DOMAIN value.f
  /\ TypeOf(value.f["repName"]) = "string"

\* Faulty variant: one invalid entry makes the whole file invalid.
validatedAtomic(assignments, t) ==
  LET es == ObjectEntries(assignments)
  IN [c \in {k \in DOMAIN es : \A j \in DOMAIN es : validEntry(es[j])} |->
        Entry(FromJSON(es[c].f["repName"]),
              IF Truthy(Get(es[c], "assignedAt"))
                THEN FromJSON(Get(es[c], "assignedAt"))
                ELSE t)]

\* The validation loop: the valid entries, each rebuilt from its repName
\* and from v.assignedAt || new Date().toISOString().
validated(assignments, t) ==
  LET es == ObjectEntries(assignments)
  IN [c \in {k \in DOMAIN es : validEntry(es[k])} |->
        Entry(FromJSON(es[c].f["repName"]),
              IF Truthy(Get(es[c], "assignedAt"))
                THEN FromJSON(Get(es[c], "assignedAt"))
                ELSE t)]

ParseResult(assignments, error) == [assignments |-> assignments, error |-> error]

\* Faulty variant: the file is always read as a bare map.
parseImportedJSONBareOnly(file, t) ==
  IF ~file.parses THEN ParseResult(EmptyMap, "Unexpected token")
  ELSE IF file.data.t = "null" THEN ParseResult(EmptyMap, "Cannot read properties of null")
  ELSE IF TypeOf(file.data) = "object" THEN ParseResult(validated(file.data, t), "")
  ELSE ParseResult(EmptyMap, "Invalid file format")

\* parseImportedJSON at clock t: error "" stands for no error.  A text that
\* does not parse and data.version of null both end in the catch clause.
parseImportedJSON(file, t) ==
  IF ~file.parses THEN ParseResult(EmptyMap, "Unexpected token")
  ELSE IF file.data.t = "null" THEN ParseResult(EmptyMap, "Cannot read properties of null")
  ELSE IF Truthy(Get(file.data, "version")) /\ Truthy(Get(file.data, "assignments"))
    THEN ParseResult(validated(Get(file.data, "assignments"), t), "")
  ELSE IF TypeOf(file.data) = "object" THEN ParseResult(validated(file.data, t), "")
  ELSE ParseResult(EmptyMap, "Invalid file format")

\* handleFileChange hands the result to onImport when there is no error and
\* at least one entry.
Accepted(r) == r.error = "" /\ Cardinality(DOMAIN r.assignments) # 0

\* The history of a store mounted with nothing stored.
FreshHistory == [past |-> <<>>, present |-> loadFromStorage(NoItem), future |-> <<>>]

\* The history after the file is picked at clock t.
ImportInto(h, file, t) ==
  LET r == parseImportedJSON(file, t)
  IN IF Accepted(r) THEN PushState(h, r.assignments) ELSE h

\* ------------------------------------------------------------- actions
setAssignment(code, repName) ==
  /\ Push(SetAssignmentNext(present, code, repName, now))
  /\ lastOp' = Op("setAssignment", repName, <<code>>, "", TRUE)

\* Faulty variant: removing an absent code skips the push.
removeAssignmentSkipsAbsent(code) ==
  IF code \in DOMAIN present
    THEN /\ Push(RemoveAssignmentNext(present, code))
         /\ lastOp' = Op("removeAssignment", "", <<code>>, "", TRUE)
    ELSE /\ UNCHANGED <<history, pushes>>
         /\ NoRender
         /\ lastOp' = Op("removeAssignment", "", <<code>>, "", FALSE)

removeAssignment(code) ==
  /\ Push(RemoveAssignmentNext(present, code))
  /\ lastOp' = Op("removeAssignment", "", <<code>>, "", TRUE)

bulkAssign(codes, repName) ==
  /\ Push(BulkAssignNext(present, codes, repName, now))
  /\ lastOp' = Op("bulkAssign", repName, codes, "", TRUE)

\* The handler is left by the TypeError before it reaches pushState.
Aborted == UNCHANGED <<history, pushes>> /\ NoRender

syncRepAssignments(repName, newCodes) ==
  IF TypeErrorIn("syncRepAssignments", present)
    THEN /\ Aborted
         /\ lastOp' = Op("syncRepAssignments", repName, newCodes, "", FALSE)
    ELSE /\ Push(SyncRepAssignmentsNext(present, repName, newCodes, now))
         /\ lastOp' = Op("syncRepAssignments", repName, newCodes, "", TRUE)

updateRepName(oldName, newName) ==
  IF TypeErrorIn("updateRepName", present)
    THEN /\ Aborted
         /\ lastOp' = Op("updateRepName", oldName, <<>>, newName, FALSE)
    ELSE /\ IF hasChanges(present, oldName)
              THEN Push(UpdateRepNameNext(present, oldName, newName))
              ELSE UNCHANGED <<history, pushes>> /\ NoRender
         /\ lastOp' = Op("updateRepName", oldName, <<>>, newName,
                         hasChanges(present, oldName))

clearAll ==
  /\ Push(EmptyMap)
  /\ lastOp' = Op("clearAll", "", <<>>, "", TRUE)

importAssignments(data) ==
  /\ Push(data)
  /\ lastOp' = Op("importAssignments", "", <<>>, "", TRUE)

\* Faulty variant: a result without entries is imported as well.
handleFileChangeNoCountTest(file) ==
  LET r == parseImportedJSON(file, now)
  IN IF r.error = ""
       THEN /\ importAssignments(r.assignments)
            /\ alertMsg' = ""
       ELSE /\ Aborted
            /\ lastOp' = Op("handleFileChange", "", <<>>, "", FALSE)
            /\ alertMsg' = r.error

\* handleFileChange: the message of a rejected file is alerted (after
\* 'Import failed: ' for an error), an accepted one is imported.
handleFileChange(file) ==
  LET r == parseImportedJSON(file, now)
  IN IF Accepted(r)
       THEN /\ importAssignments(r.assignments)
            /\ alertMsg' = ""
       ELSE /\ Aborted
            /\ lastOp' = Op("handleFileChange", "", <<>>, "", FALSE)
            /\ alertMsg' = IF r.error # "" THEN r.error
                           ELSE "No valid assignments found in file"

\* One event handler that calls setAssignment twice before the re-render:
\* both calls read history.present of the render that created the callback,
\* the two updaters of pushState run one after the other on the latest
\* history, and one render with one save effect follows.
setAssignmentTwice(c1, c2, repName) ==
  LET first == PushState(history, SetAssignmentNext(present, c1, repName, now))
      second == PushState(first, SetAssignmentNext(present, c2, repName, now))
  IN /\ history' = second
     /\ pushes' = pushes + 2
     /\ SaveEffect(second.present)
     /\ lastOp' = Op("setAssignmentTwice", repName, <<c1, c2>>, "", TRUE)

\* One event handler that calls undo and then setAssignment: the updater of
\* undo runs on the latest history, setAssignment reads the rendered present.
undoThenSetAssignment(code, repName) ==
  LET undone == UndoState(history)
      pushed == PushState(undone, SetAssignmentNext(present, code, repName, now))
  IN /\ history' = pushed
     /\ pushes' = pushes + 1
     /\ SaveEffect(pushed.present)
     /\ lastOp' = Op("undoThenSetAssignment", repName, <<code>>, "", TRUE)

\* Faulty variant: every undo call re-renders with a new present object.
undoAlwaysRenders ==
  /\ history' = UndoState(history)
  /\ SaveEffect(history'.present)
  /\ lastOp' = Op("undo", "", <<>>, "", Len(past) # 0)
  /\ UNCHANGED pushes

undo ==
  /\ history' = UndoState(history)
  /\ IF Len(past) = 0 THEN NoRender ELSE SaveEffect(history'.present)
  /\ lastOp' = Op("undo", "", <<>>, "", Len(past) # 0)
  /\ UNCHANGED pushes

\* Faulty variant: a redo does not reach the save effect.
redoSkipsSave ==
  /\ history' = RedoState(history)
  /\ NoRender
  /\ lastOp' = Op("redo", "", <<>>, "", Len(future) # 0)
  /\ UNCHANGED pushes

redo ==
  /\ history' = RedoState(history)
  /\ IF Len(future) = 0 THEN NoRender ELSE SaveEffect(history'.present)
  /\ lastOp' = Op("redo", "", <<>>, "", Len(future) # 0)
  /\ UNCHANGED pushes

\* Faulty variant: the timer is an interval, it stays armed after it fired.
saveTimerRepeats ==
  /\ saveTimeout.armed
  /\ storage' = Item(saveTimeout.present)
  /\ lastSaved' = <<now>>
  /\ isDirty' = FALSE
  /\ UNCHANGED <<history, pushes, lastOp, saveTimeout>>

\* The debounce timer fires: saveToStorage(present of the closure),
\* setLastSaved(new Date()), setIsDirty(false).
saveTimerFires ==
  /\ saveTimeout.armed
  /\ storage' = Item(saveTimeout.present)
  /\ lastSaved' = <<now>>
  /\ isDirty' = FALSE
  /\ saveTimeout' = [saveTimeout EXCEPT !.armed = FALSE]
  /\ UNCHANGED <<history, pushes, lastOp>>

\* Faulty variant: saveToStorage has no try/catch, the exception leaves the
\* callback before setLastSaved and setIsDirty.
saveTimerFiresUncaught ==
  /\ saveTimeout.armed
  /\ saveTimeout' = [saveTimeout EXCEPT !.armed = FALSE]
  /\ UNCHANGED <<history, pushes, lastOp, storage, lastSaved, isDirty>>

\* The debounce timer fires and localStorage.setItem throws (quota, storage
\* disabled): saveToStorage catches and logs, the callback goes on with
\* setLastSaved(new Date()) and setIsDirty(false).
saveTimerFiresWriteThrows ==
  /\ saveTimeout.armed
  /\ UNCHANGED storage
  /\ lastSaved' = <<now>>
  /\ isDirty' = FALSE
  /\ saveTimeout' = [saveTimeout EXCEPT !.armed = FALSE]
  /\ UNCHANGED <<history, pushes, lastOp>>

\* ---------------------------------------------------------- the roster
\* SALES_REPS: the seed roster (two of its six representatives; the first
\* names stand for the full names).  territoryName "" is undefined.
Rep(name, color, territoryName) ==
  [name |-> name, color |-> color, territoryName |-> territoryName]

RepIds == {"rep1", "rep2"}

SALES_REPS ==
  [id \in RepIds |-> IF id = "rep1" THEN Rep("Alice", "#3B82F6", "")
                                     ELSE Rep("Bob", "#10B981", "")]

\* What a user may type into the name field, and String.prototype.trim on it.
TypedNames == {"Robert", " Robert ", "Bob", "", "   "}

Trim(s) ==
  CASE s = " Robert " -> "Robert"
    [] s = "   " -> ""
    [] OTHER -> s

\* Faulty variant: the name is stored as typed.
useReps_updateRepNameAsTyped(id, newName) ==
  /\ reps' = [r \in DOMAIN reps |->
               IF r = id THEN [reps[r] EXCEPT !.name = newName] ELSE reps[r]]
  /\ lastOp' = Op("useReps.updateRepName", id, <<>>, newName, reps' # reps)

\* useReps.updateRepName(id, newName)
useReps_updateRepName(id, newName) ==
  /\ IF Trim(newName) = ""
       THEN UNCHANGED reps
       ELSE reps' = [r \in DOMAIN reps |->
                      IF r = id THEN [reps[r] EXCEPT !.name = Trim(newName)] ELSE reps[r]]
  /\ lastOp' = Op("useReps.updateRepName", id, <<>>, newName, reps' # reps)

updateRepColor(id, newColor) ==
  /\ reps' = [r \in DOMAIN reps |->
               IF r = id THEN [reps[r] EXCEPT !.color = newColor] ELSE reps[r]]
  /\ lastOp' = Op("updateRepColor", id, <<>>, newColor, reps' # reps)

updateRepTerritory(id, territoryName) ==
  /\ reps' = [r \in DOMAIN reps |->
               IF r = id THEN [reps[r] EXCEPT !.territoryName = territoryName] ELSE reps[r]]
  /\ lastOp' = Op("updateRepTerritory", id, <<>>, territoryName, reps' # reps)

\* SlideOutPanel: no conflict dialog is open.
NoPendingSync == [open |-> FALSE, repName |-> "", codes |-> <<>>, conflicts |-> {}]

\* ----------------------------------------------------------- the panel
\* Faulty variant: the prop is wired to the store's updateRepName.
saveEditingWired(id, field, value) ==
  /\ id \in DOMAIN reps
  /\ field = "name" /\ Trim(value) # "" /\ reps[id].name # Trim(value)
  /\ IF hasChanges(present, reps[id].name)
       THEN Push(UpdateRepNameNext(present, reps[id].name, Trim(value)))
       ELSE Aborted
  /\ reps' = [reps EXCEPT ![id].name = Trim(value)]
  /\ thrown' = FALSE
  /\ lastOp' = Op("saveEditing", id, <<field>>, value, TRUE)
  /\ UNCHANGED pendingSync

\* SlideOutPanel.saveEditing with editingRepId = id, editingField = field
\* and editingValue = value.  Map.tsx hands the panel onUpdateRepName (the
\* roster's) but no onUpdateRepNameInAssignments: the prop is undefined in
\* the panel and calling it raises a TypeError, before the roster is updated.
saveEditing(id, field, value) ==
  /\ id \in DOMAIN reps
  /\ field \in {"name", "territory"}
  /\ Aborted
  /\ UNCHANGED pendingSync
  /\ IF field = "name" /\ Trim(value) # ""
       THEN IF reps[id].name # Trim(value)
              THEN thrown' = TRUE /\ UNCHANGED reps
              ELSE thrown' = FALSE
                   /\ reps' = [reps EXCEPT ![id].name = Trim(value)]
       ELSE IF field = "territory"
              THEN thrown' = FALSE
                   /\ reps' = [reps EXCEPT ![id].territoryName = Trim(value)]
              ELSE thrown' = FALSE /\ UNCHANGED reps
  /\ lastOp' = Op("saveEditing", id, <<field>>, value, reps' # reps)

\* Map.handleAssign / handleUnassign: the modal hands over the name of a
\* representative of the roster.
handleAssign(code, id) == setAssignment(code, reps[id].name)

handleUnassign(code) == removeAssignment(code)

\* The codes of a list that belong to somebody else than repName.
conflicts(M, repName, codes) ==
  {c \in SeqRange(codes) : c \in DOMAIN M /\ ~repNameIs(M[c], repName)}

\* codes.filter(code => !conflictCodes.has(code))
RECURSIVE Without(_, _)
Without(codes, S) ==
  IF codes = <<>> THEN <<>>
  ELSE IF Head(codes) \in S THEN Without(Tail(codes), S)
  ELSE <<Head(codes)>> \o Without(Tail(codes), S)

\* SlideOutPanel.handleApply with selectedRepId = id and an input that
\* parses to codes (without duplicates); invalid tells whether the input had
\* unrecognised items.
handleApply(id, codes, invalid) ==
  /\ thrown' = FALSE
  /\ UNCHANGED reps
  /\ IF id \notin DOMAIN reps \/ (codes = <<>> /\ invalid)
       THEN /\ Aborted
            /\ UNCHANGED pendingSync
            /\ lastOp' = Op("handleApply", id, codes, "", FALSE)
       ELSE IF conflicts(present, reps[id].name, codes) # {}
         THEN /\ Aborted
              /\ pendingSync' = [open |-> TRUE, repName |-> reps[id].name, codes |-> codes,
                                  conflicts |-> conflicts(present, reps[id].name, codes)]
              /\ lastOp' = Op("handleApply", id, codes, "", FALSE)
         ELSE /\ Push(SyncRepAssignmentsNext(present, reps[id].name, codes, now))
              /\ UNCHANGED pendingSync
              /\ lastOp' = Op("handleApply", id, codes, "", TRUE)

\* 'Reassign' in the conflict dialog.
handleConfirmReassign ==
  /\ pendingSync.open
  /\ Push(SyncRepAssignmentsNext(present, pendingSync.repName, pendingSync.codes, now))
  /\ pendingSync' = NoPendingSync
  /\ thrown' = FALSE
  /\ lastOp' = Op("handleConfirmReassign", pendingSync.repName, pendingSync.codes, "", TRUE)
  /\ UNCHANGED reps

\* 'Leave as is' in the conflict dialog: the conflicts are those found when
\* Apply was pressed.
handleCancelReassign ==
  /\ pendingSync.open
  /\ Push(SyncRepAssignmentsNext(present, pendingSync.repName,
          Without(pendingSync.codes, pendingSync.conflicts), now))
  /\ pendingSync' = NoPendingSync
  /\ thrown' = FALSE
  /\ lastOp' = Op("handleCancelReassign", pendingSync.repName, pendingSync.codes, "", TRUE)
  /\ UNCHANGED reps

\* ------------------------------------------------------------ CSV export
\* A string as the sequence of its pieces: the comma, the double quote and
\* the newline are pieces of their own, the text between them is one piece.
Chars(s) ==
  CASE s = "" -> <<>>
    [] s = "Jane, \"JJ\" Doe" -> <<"Jane", ",", " ", "\"", "JJ", "\"", " Doe">>
    [] s = "Ann\nLee" -> <<"Ann", "\n", "Lee">>
    [] s = "West, North" -> <<"West", ",", " North">>
    [] OTHER -> <<s>>

\* value.replace(/"/g, '""')
RECURSIVE DoubleQuotes(_)
DoubleQuotes(v) ==
  IF v = <<>> THEN <<>>
  ELSE IF Head(v) = "\"" THEN <<"\"", "\"">> \o DoubleQuotes(Tail(v))
  ELSE <<Head(v)>> \o DoubleQuotes(Tail(v))

\* Faulty variant: the value is wrapped, its quotes are left single.
escapeCSVNoDoubling(v) ==
  IF \E i \in DOMAIN v : v[i] \in {",", "\"", "\n"}
    THEN <<"\"">> \o v \o <<"\"">>
    ELSE v

\* escapeCSV
escapeCSV(v) ==
  IF \E i \in DOMAIN v : v[i] \in {",", "\"", "\n"}
    THEN <<"\"">> \o DoubleQuotes(v) \o <<"\"">>
    ELSE v

\* Array.prototype.join
RECURSIVE Join(_, _)
Join(parts, sep) ==
  IF parts = <<>> THEN <<>>
  ELSE IF Len(parts) = 1 THEN Head(parts)
  ELSE Head(parts) \o <<sep>> \o Join(Tail(parts), sep)

\* The codes of the model in the order of localeCompare, and the entries of
\* a map sorted by it.
CodeOrder == <<"CA", "NY", "TX">>

SortedCodes(M) == SelectSeq(CodeOrder, LAMBDA c : c \in DOMAIN M)

\* The order of the roster array.
RepOrder == <<"rep1", "rep2">>

\* repTerritoryLookup.get(name) || '': the territory of the last
\* representative of that name who has one.
RECURSIVE TerritoryOf(_, _, _)
TerritoryOf(roster, name, k) ==
  IF k = 0 THEN ""
  ELSE IF roster[RepOrder[k]].name = name /\ roster[RepOrder[k]].territoryName # ""
    THEN roster[RepOrder[k]].territoryName
  ELSE TerritoryOf(roster, name, k - 1)

\* lookupMaps.codeToName: empty until the map data is loaded.
CodeToName(loaded) ==
  IF loaded = "loaded"
    THEN [c \in Codes |-> CASE c = "CA" -> "California" [] c = "NY" -> "New York"
                            [] OTHER -> "Texas"]
    ELSE EmptyMap

headers == <<"State Code", "State Name", "Rep Name", "Territory Name", "Assigned At">>

\* exportAssignmentsAsCSV: the content of the downloaded file.
exportAssignmentsAsCSV(assignments, codeToName, roster) ==
  LET codes == SortedCodes(assignments)
      row(code) ==
        << <<code>>,
           IF code \in DOMAIN codeToName THEN Chars(codeToName[code]) ELSE <<code>>,
           Chars(assignments[code].repName),
           Chars(TerritoryOf(roster, assignments[code].repName, Len(RepOrder))),
           <<ToString(assignments[code].assignedAt)>> >>
      line(code) == Join([i \in 1..5 |-> escapeCSV(row(code)[i])], ",")
  IN Join(<<Join([i \in 1..5 |-> <<headers[i]>>], ",")>>
            \o [i \in 1..Len(codes) |-> line(codes[i])], "\n")

\* ExportImportToolbar.handleExportCSV
handleExportCSV(loaded) ==
  /\ csv' = exportAssignmentsAsCSV(present, CodeToName(loaded), reps)
  /\ lastOp' = Op("handleExportCSV", loaded, <<>>, "", TRUE)
  /\ UNCHANGED <<history, isDirty, lastSaved, saveTimeout, storage, now, pushes, trail,
                 alertMsg, thrown, burst, reps, pendingSync>>

\* ------------------------------------------------------- specifications
\* What localStorage may hold when the hook mounts.
StoredAtMount ==
  {NoItem,
   Item(Upsert(Upsert(EmptyMap, "CA", "Bob", 0), "TX", "Alice", 0))}

\* The code lists a caller may pass: empty, one code, two codes, and a list
\* out of order with a duplicate.
CodeLists ==
  {<<>>, <<"CA">>, <<"CA", "TX">>, <<"CA", "NY">>, <<"TX", "TX">>, <<"NY", "CA", "NY">>}

\* The files a user may import (already validated by parseImportedJSON).
ImportData == {Upsert(Upsert(EmptyMap, "CA", "Alice", 0), "NY", "Bob", 1)}

\* After mount: present loaded from storage, the mount effect has run.
InitWith(st) ==
  /\ storage = st
  /\ history = [past |-> <<>>, present |-> loadFromStorage(st), future |-> <<>>]
  /\ isDirty = TRUE
  /\ lastSaved = <<>>
  /\ saveTimeout = [armed |-> TRUE, present |-> loadFromStorage(st)]
  /\ now = 1
  /\ pushes = 0
  /\ trail = <<loadFromStorage(st)>>
  /\ lastOp = Op("mount", "", <<>>, "", FALSE)
  /\ alertMsg = ""
  /\ thrown = FALSE
  /\ burst = [many |-> FALSE, writes |-> 0]
  /\ reps = SALES_REPS
  /\ pendingSync = NoPendingSync
  /\ csv = <<>>

Init == \E st \in StoredAtMount : InitWith(st)

tick ==
  /\ now < MaxTime
  /\ now' = now + 1
  /\ UNCHANGED <<history, isDirty, lastSaved, saveTimeout, storage, pushes, trail, lastOp,
                 alertMsg, thrown, burst, ui>>

\* The count of what the pending timer covers.  A call that leaves history
\* alone adds nothing; a change made while a timer is pending joins the
\* burst that armed it; a change made while no timer is pending starts a
\* burst of its own.
BurstAfter ==
  IF history' = history THEN burst
  ELSE IF saveTimeout.armed THEN [burst EXCEPT !.many = TRUE]
  ELSE [many |-> FALSE, writes |-> 0]

\* The end of an event handler of the hook's caller.
Handled ==
  /\ alertMsg' = ""
  /\ thrown' = TypeErrorIn(lastOp'.name, present)
  /\ burst' = BurstAfter
  /\ UNCHANGED ui

\* The timer callback has run.
Fired ==
  /\ burst' = [burst EXCEPT !.writes = @ + 1]
  /\ UNCHANGED <<now, trail, alertMsg, thrown, ui>>

\* One user event: a mutator call while the push budget lasts.
Call(A) == pushes < MaxPushes /\ A /\ UNCHANGED <<now, trail>> /\ Handled

\* The calls a user event can make.
Calls ==
  \/ \E c \in Codes, r \in Reps : Call(setAssignment(c, r))
  \/ \E c \in Codes : Call(removeAssignment(c))
  \/ \E cs \in CodeLists, r \in Reps : Call(bulkAssign(cs, r))
  \/ \E r \in Reps, cs \in CodeLists : Call(syncRepAssignments(r, cs))
  \/ \E o \in Reps, n \in Names : Call(updateRepName(o, n))
  \/ Call(clearAll)
  \/ \E d \in ImportData : Call(importAssignments(d))
  \/ undo /\ UNCHANGED <<now, trail>> /\ Handled
  \/ redo /\ UNCHANGED <<now, trail>> /\ Handled

Next ==
  \/ Calls
  \/ saveTimerFires /\ Fired
  \/ tick

Spec == Init /\ [][Next]_vars

\* Calls that follow one another within the debounce delay: the timer armed
\* by the last change has not fired yet.
NextCalls ==
  \/ Calls
  \/ tick

SpecCalls == Init /\ [][NextCalls]_vars

\* The save path: single-code calls, undo and redo, the clock and the
\* debounce timer.
NextSave ==
  \/ \E c \in Codes, r \in Reps : Call(setAssignment(c, r))
  \/ \E c \in Codes : Call(removeAssignment(c))
  \/ undo /\ UNCHANGED <<now, trail>> /\ Handled
  \/ redo /\ UNCHANGED <<now, trail>> /\ Handled
  \/ saveTimerFires /\ Fired
  \/ tick

SpecSave == Init /\ [][NextSave]_vars

\* The browser runs a timer that is due: the callback of an armed timer is
\* not postponed for ever.
NextSettle ==
  \/ \E c \in Codes : Call(setAssignment(c, "Alice"))
  \/ undo /\ UNCHANGED <<now, trail>> /\ Handled
  \/ redo /\ UNCHANGED <<now, trail>> /\ Handled
  \/ saveTimerFires /\ Fired

SpecSaveFair == Init /\ [][NextSettle]_vars /\ WF_vars(saveTimerFires /\ Fired)

\* A long burst: one setAssignment per millisecond with no undone state
\* pending, freely interleaved with undo and redo; the debounce timer does
\* not fire during the burst.
longPush ==
  /\ pushes < MaxLongPushes
  /\ future = <<>>
  /\ \E r \in {"Alice"} : setAssignment("CA", r)
  /\ now' = now + 1
  /\ trail' = Append(trail, history'.present)
  /\ Handled

NextLong ==
  \/ longPush
  \/ undo /\ UNCHANGED <<now, trail>> /\ Handled
  \/ redo /\ UNCHANGED <<now, trail>> /\ Handled

SpecLong == InitWith(NoItem) /\ [][NextLong]_vars

\* The save path over a storage whose setItem may throw.
NextSaveThrows ==
  \/ \E c \in Codes : Call(setAssignment(c, "Alice"))
  \/ undo /\ UNCHANGED <<now, trail>> /\ Handled
  \/ redo /\ UNCHANGED <<now, trail>> /\ Handled
  \/ saveTimerFires /\ Fired
  \/ saveTimerFiresWriteThrows /\ Fired
  \/ tick

SpecSaveThrows == Init /\ [][NextSaveThrows]_vars

\* Handlers that make two calls of the hook's API before the re-render,
\* between single calls, undo and redo.
NextBatch ==
  \/ \E c \in Codes, r \in Reps : Call(setAssignment(c, r))
  \/ \E c1, c2 \in Codes, r \in Reps : Call(setAssignmentTwice(c1, c2, r))
  \/ \E c \in Codes, r \in Reps : Call(undoThenSetAssignment(c, r))
  \/ undo /\ UNCHANGED <<now, trail>> /\ Handled
  \/ redo /\ UNCHANGED <<now, trail>> /\ Handled
  \/ tick

SpecBatch == Init /\ [][NextBatch]_vars

\* One call of the roster hook; the assignment store is not involved.
RosterCall(A) ==
  /\ A
  /\ UNCHANGED <<history, isDirty, lastSaved, saveTimeout, storage, now, pushes, trail,
                 alertMsg, thrown, burst, pendingSync, csv>>

\* The colours of the picker and the territory names a user may give; an
\* id outside the roster.
Colors == {"#3B82F6", "#EF4444"}
TerritoryNames == {"", "West"}
AnyIds == RepIds \cup {"rep9"}

NextReps ==
  \/ \E id \in AnyIds, n \in TypedNames : RosterCall(useReps_updateRepName(id, n))
  \/ \E id \in AnyIds, c \in Colors : RosterCall(updateRepColor(id, c))
  \/ \E id \in AnyIds, t \in TerritoryNames : RosterCall(updateRepTerritory(id, t))

SpecReps == Init /\ [][NextReps]_vars

\* One event of the panel: the handler, the re-render and its save effect.
PanelEvent(A) ==
  /\ A
  /\ UNCHANGED <<now, trail, csv>>
  /\ alertMsg' = ""
  /\ burst' = BurstAfter

\* What a user may type into the states field, as parseStatesInput reads
\* it: the codes and whether unrecognised items were found.
AppliedInputs ==
  {[codes |-> <<>>, invalid |-> FALSE], [codes |-> <<>>, invalid |-> TRUE],
   [codes |-> <<"TX">>, invalid |-> FALSE], [codes |-> <<"CA", "TX">>, invalid |-> TRUE]}

\* What a user may type into the name field and the territory field of the
\* panel.
EditedNames == {" Robert ", "Bob", "   "}
EditedTerritories == {"West"}

InitPanel == InitWith(NoItem)

\* While the conflict dialog is open the user answers it or uses the
\* keyboard shortcuts, which listen on the window; the map and the panel are
\* used when no dialog is open.  The panel's sync may follow the last push
\* of the modal.
NextPanel ==
  \/ \E c \in Codes, id \in RepIds : ~pendingSync.open /\ Call(handleAssign(c, id))
  \/ \E c \in Codes : ~pendingSync.open /\ Call(handleUnassign(c))
  \/ \E id \in AnyIds, in \in AppliedInputs :
       /\ ~pendingSync.open /\ pushes <= MaxPushes
       /\ PanelEvent(handleApply(id, in.codes, in.invalid))
  \/ PanelEvent(handleConfirmReassign)
  \/ PanelEvent(handleCancelReassign)
  \/ \E id \in RepIds, v \in EditedNames :
       ~pendingSync.open /\ PanelEvent(saveEditing(id, "name", v))
  \/ \E id \in RepIds, v \in EditedTerritories :
       ~pendingSync.open /\ PanelEvent(saveEditing(id, "territory", v))
  \/ undo /\ UNCHANGED <<now, trail>> /\ Handled
  \/ redo /\ UNCHANGED <<now, trail>> /\ Handled

SpecPanel == InitPanel /\ [][NextPanel]_vars

\* Names and territories with commas, quotes and newlines in them.
CsvNames == {"Bob", "Jane, \"JJ\" Doe", "Ann\nLee"}
CsvRenames == {"Ann\nLee"}
CsvTerritories == {"West, North"}

NextCSV ==
  \/ \E c \in Codes, r \in CsvNames : Call(setAssignment(c, r))
  \/ \E id \in RepIds, n \in CsvRenames : RosterCall(useReps_updateRepName(id, n))
  \/ \E id \in RepIds, t \in CsvTerritories : RosterCall(updateRepTerritory(id, t))
  \/ \E l \in {"loaded", "loading"} : handleExportCSV(l)

SpecCSV == InitPanel /\ [][NextCSV]_vars

\* The files a user may pick in the import dialog.
FileEntry(repName, ts) == JObj([repName |-> JStr(repName), assignedAt |-> JIso(ts)])

Files ==
  {Unparseable,
   TextFile(JNull),
   TextFile(JNum(5)),
   TextFile(JStr("hello")),
   TextFile(JObj(NoProps)),
   \* a file this application exported
   exportAssignmentsAsJSON(Upsert(Upsert(EmptyMap, "CA", "Alice", 0), "NY", "Bob", 1), Reps, 1),
   \* a bare map: one full entry, one without assignedAt, one null
   TextFile(JObj([CA |-> FileEntry("Alice", 0),
                  TX |-> JObj([repName |-> JStr("Bob")]),
                  NY |-> JNull])),
   \* a bare map without a valid entry: repName is a number, the entry a string
   TextFile(JObj([CA |-> JObj([repName |-> JNum(5), assignedAt |-> JIso(0)]),
                  TX |-> JStr("Bob")])),
   \* a bare map whose entry has an empty assignedAt
   TextFile(JObj([CA |-> JObj([repName |-> JStr("Alice"), assignedAt |-> JStr("")])])),
   \* an envelope whose version is the empty string
   TextFile(JObj([version |-> JStr(""),
                  assignments |-> JObj([TX |-> FileEntry("Bob", 0)])])),
   \* an envelope whose assignments is a string
   TextFile(JObj([version |-> JStr("2.0"), assignments |-> JStr("none")])),
   \* an envelope with one valid entry and one that has no repName
   TextFile(JObj([version |-> JNum(1),
                  assignments |-> JObj([CA |-> FileEntry("Bob", 1),
                                        NY |-> JObj([assignedAt |-> JIso(0)])])]))}

\* One pick in the import dialog.
FilePicked(f) ==
  /\ pushes < MaxPushes
  /\ handleFileChange(f)
  /\ thrown' = FALSE
  /\ burst' = BurstAfter
  /\ UNCHANGED <<now, trail, ui>>

\* Importing: file picks between single assignments, undo and redo.
NextImport ==
  \/ \E f \in Files : FilePicked(f)
  \/ \E c \in Codes, r \in Reps : Call(setAssignment(c, r))
  \/ undo /\ UNCHANGED <<now, trail>> /\ Handled
  \/ redo /\ UNCHANGED <<now, trail>> /\ Handled
  \/ tick

SpecImport == Init /\ [][NextImport]_vars

\* What localStorage may hold at mount when another program, another
\* version or a hand edit wrote the item: text that does not parse, null, a
\* number, an array, objects with a null entry or an entry without repName.
StoredAnything ==
  StoredAtMount \cup
  {StoredAs("text", EmptyMap),
   StoredAs("null", EmptyMap),
   StoredAs("number", EmptyMap),
   StoredAs("array", [k \in {"0"} |-> Entry("Bob", 0)]),
   Item([CA |-> NullEntry, TX |-> Entry("Alice", 0)]),
   Item([CA |-> NoRepEntry])}

InitLoad == \E st \in StoredAnything : InitWith(st)

\* After a mount on any stored item: calls within the debounce delay.
NextLoad ==
  \/ \E c \in Codes, r \in Reps : Call(setAssignment(c, r))
  \/ \E c \in Codes : Call(removeAssignment(c))
  \/ \E r \in Reps, cs \in CodeLists : Call(syncRepAssignments(r, cs))
  \/ \E o \in Reps, n \in Names : Call(updateRepName(o, n))
  \/ undo /\ UNCHANGED <<now, trail>> /\ Handled
  \/ redo /\ UNCHANGED <<now, trail>> /\ Handled
  \/ tick

SpecLoad == InitLoad /\ [][NextLoad]_vars

\* ---------------------------------------------------------------- claims
MutatorNames ==
  {"setAssignment", "removeAssignment", "bulkAssign", "syncRepAssignments",
   "updateRepName", "clearAll", "importAssignments"}

RECURSIVE UndoTimes(_, _)
UndoTimes(h, k) == IF k = 0 THEN h ELSE UndoTimes(UndoState(h), k - 1)

RECURSIVE RedoTimes(_, _)
RedoTimes(h, k) == IF k = 0 THEN h ELSE RedoTimes(RedoState(h), k - 1)

\* C1: in every reachable state, after pushes, undos and redos, past holds at
\* most MAX_HISTORY snapshots.
C1_PastBounded == Len(past) <= MAX_HISTORY

\* A redo has just refilled past up to the cap.
C1_Witness ==
  /\ lastOp.name = "redo" /\ lastOp.changed
  /\ Len(past) = MAX_HISTORY
  /\ pushes > MAX_HISTORY

\* C2: whenever the most recent call is a mutator that pushed (every mutator,
\* bar an updateRepName that matched nothing), future is empty and canRedo is
\* false, also when undone states were pending before the call.
C2_PushClearsFuture ==
  (lastOp.name \in MutatorNames /\ lastOp.changed) => (future = <<>> /\ ~canRedo)

\* A mutator ran after an undo: two pushes so far, yet past holds one entry.
C2_Witness ==
  /\ lastOp.name \in MutatorNames /\ lastOp.changed
  /\ pushes = 2 /\ Len(past) = 1
  /\ future = <<>>

\* C3: from every reachable history, k undos followed by k redos give back
\* the same past, present (timestamps included) and future, for every k up
\* to the number of snapshots in past; right after a mutating operation
\* (future empty) also for a k beyond it, whose extra undos and redos are
\* no-ops.
C3_UndoRedoInverse ==
  \A k \in 1..(Len(past) + 1) :
     (k <= Len(past) \/ future = <<>>) =>
        RedoTimes(UndoTimes(history, k), k) = history

\* Two undos and two redos have brought back a present stamped earlier.
C3_Witness ==
  /\ lastOp.name = "redo" /\ lastOp.changed
  /\ future = <<>> /\ Len(past) = 2
  /\ \E c \in DOMAIN present : present[c].assignedAt < now
  /\ UndoTimes(history, 2).present # present

\* C4: after more than MAX_HISTORY consecutive pushes, the i-th undo
\* (i <= MAX_HISTORY) installs the present of i pushes earlier, an undo
\* beyond that changes nothing, and the states older than the last
\* MAX_HISTORY are nowhere in the history.
C4_UndoDepth ==
  [][(undo /\ pushes > MAX_HISTORY) =>
       /\ IF Len(future) < MAX_HISTORY
            THEN history'.present = trail[Len(trail) - Len(future) - 1]
            ELSE UNCHANGED history
       /\ \A j \in 1..(pushes - MAX_HISTORY) :
            /\ trail[j] # history'.present
            /\ trail[j] \notin SeqRange(history'.past)
            /\ trail[j] \notin SeqRange(history'.future)]_vars

\* The 51st undo after 51 or more pushes: a no-op on an empty past.
C4_Witness ==
  /\ lastOp.name = "undo" /\ ~lastOp.changed
  /\ pushes > MAX_HISTORY
  /\ Len(future) = MAX_HISTORY /\ past = <<>>

\* C5: undo on an empty past and redo on an empty future change neither the
\* history nor the save timer, isDirty, lastSaved or the stored item.
C5_EmptyUndoRedoNoOp ==
  [][((undo /\ past = <<>>) \/ (redo /\ future = <<>>)) =>
       UNCHANGED <<history, isDirty, lastSaved, saveTimeout, storage>>]_vars

\* A no-op undo after the pending save has completed: nothing was re-armed.
C5_Witness ==
  /\ lastOp.name = "undo" /\ ~lastOp.changed
  /\ past = <<>>
  /\ ~saveTimeout.armed /\ ~isDirty /\ lastSaved # <<>>

\* The same codes with the same owners, timestamps aside.
SameOwners(M, N) ==
  /\ DOMAIN M = DOMAIN N
  /\ \A c \in DOMAIN M : M[c].repName = N[c].repName

\* The present before the most recent push.
beforePush == past[Len(past)]

\* C6: after syncRepAssignments(R, D) the codes owned by R are exactly those
\* of D: a listed code another representative owned now belongs to R, and a
\* code R owned that is not listed is unassigned.
C6_SyncPostcondition ==
  [][LET r == lastOp'.repName
         cs == lastOp'.codes
     IN (lastOp'.name = "syncRepAssignments" /\ syncRepAssignments(r, cs)) =>
         /\ owned(history'.present, r) = SeqRange(cs)
         /\ \A c \in SeqRange(cs) :
              c \in DOMAIN history'.present /\ history'.present[c].repName = r
         /\ \A c \in owned(present, r) \ SeqRange(cs) :
              c \notin DOMAIN history'.present]_vars

\* A sync that both took a code from another owner and dropped one of R's.
C6_Witness ==
  /\ lastOp.name = "syncRepAssignments"
  /\ Len(past) > 0
  /\ \E c \in SeqRange(lastOp.codes) :
       c \in DOMAIN beforePush /\ beforePush[c].repName # lastOp.repName
  /\ \E c \in owned(beforePush, lastOp.repName) : c \notin SeqRange(lastOp.codes)
  /\ owned(present, lastOp.repName) = SeqRange(lastOp.codes)

\* C7: syncRepAssignments(R, D) leaves every entry of another representative
\* whose code is not in D as it was, timestamp included, and leaves an
\* unassigned code that is not in D unassigned.
C7_SyncFrame ==
  [][LET r == lastOp'.repName
         cs == lastOp'.codes
     IN (lastOp'.name = "syncRepAssignments" /\ syncRepAssignments(r, cs)) =>
         \A c \in Codes \ SeqRange(cs) :
           /\ (c \in DOMAIN present /\ present[c].repName # r) =>
                (c \in DOMAIN history'.present /\ history'.present[c] = present[c])
           /\ c \notin DOMAIN present => c \notin DOMAIN history'.present]_vars

\* A sync that changed the map while another owner's unlisted code, stamped
\* earlier, was in it.
C7_Witness ==
  /\ lastOp.name = "syncRepAssignments"
  /\ Len(past) > 0
  /\ present # beforePush
  /\ \E c \in (DOMAIN beforePush) \ SeqRange(lastOp.codes) :
       /\ beforePush[c].repName # lastOp.repName
       /\ beforePush[c].assignedAt < now
       /\ c \in DOMAIN present /\ present[c] = beforePush[c]

\* C8: a second syncRepAssignments(R, D) right after a first one with the
\* same arguments keeps the codes and their owners; only the timestamps of
\* the codes of D may change.
C8_SyncIdempotent ==
  [][LET r == lastOp'.repName
         cs == lastOp'.codes
     IN (/\ lastOp'.name = "syncRepAssignments"
         /\ lastOp = lastOp'
         /\ syncRepAssignments(r, cs)) =>
         /\ SameOwners(history'.present, present)
         /\ \A c \in (DOMAIN present) \ SeqRange(cs) : history'.present[c] = present[c]]_vars

\* Two syncs in a row with the same arguments, the first of which changed
\* the owners, the second only timestamps.
C8_Witness ==
  /\ lastOp.name = "syncRepAssignments"
  /\ Len(past) = 2
  /\ ~SameOwners(past[1], past[2])
  /\ \E t \in 0..MaxTime :
       past[2] = SyncRepAssignmentsNext(past[1], lastOp.repName, lastOp.codes, t)
  /\ SameOwners(present, past[2])
  /\ present # past[2]

\* C9: a bulkAssign or a syncRepAssignments call is one history step: past
\* gains exactly the pre-call present, the codes written carry one
\* timestamp, and one undo gives back the pre-call present.
C9_OneAtomicStep ==
  [][LET r == lastOp'.repName
         cs == lastOp'.codes
     IN (\/ lastOp'.name = "bulkAssign" /\ bulkAssign(cs, r)
         \/ lastOp'.name = "syncRepAssignments" /\ syncRepAssignments(r, cs)) =>
         /\ history'.past = Append(past, present)
         /\ \A c, d \in SeqRange(cs) :
              history'.present[c].assignedAt = history'.present[d].assignedAt
         /\ UndoState(history').present = present
         /\ UndoState(history').past = past]_vars

\* From empty: bulkAssign([CA, TX], Alice), sync(Alice, [CA, NY]), undo.
C9_Witness ==
  /\ lastOp.name = "undo" /\ lastOp.changed
  /\ past = <<EmptyMap>>
  /\ present = BulkAssignNext(EmptyMap, <<"CA", "TX">>, "Alice", 1)
  /\ future = <<SyncRepAssignmentsNext(present, "Alice", <<"CA", "NY">>, 2)>>
  /\ DOMAIN future[1] = {"CA", "NY"}

\* C10: updateRepName(oldName, newName) with at least one assignment of
\* oldName rewrites the repName of each of them, keeps their assignedAt,
\* leaves the other entries and the set of codes as they were, and pushes
\* one history entry.
C10_RenamePropagates ==
  [][LET o == lastOp'.repName
         n == lastOp'.newName
     IN (/\ lastOp'.name = "updateRepName"
         /\ updateRepName(o, n)
         /\ \E c \in DOMAIN present : present[c].repName = o) =>
         /\ DOMAIN history'.present = DOMAIN present
         /\ \A c \in DOMAIN present :
              history'.present[c] =
                IF present[c].repName = o
                  THEN [repName |-> n, assignedAt |-> present[c].assignedAt]
                  ELSE present[c]
         /\ history'.past = Append(past, present)
         /\ pushes' = pushes + 1]_vars

\* A rename that rewrote two assignments and left a third owner's alone.
C10_Witness ==
  /\ lastOp.name = "updateRepName" /\ lastOp.changed
  /\ lastOp.repName # lastOp.newName
  /\ Len(past) > 0
  /\ Cardinality(owned(beforePush, lastOp.repName)) = 2
  /\ owned(beforePush, lastOp.repName) \subseteq owned(present, lastOp.newName)
  /\ \E c \in DOMAIN beforePush :
       beforePush[c].repName \notin {lastOp.repName, lastOp.newName}
  /\ owned(present, lastOp.repName) = {}

\* C11: updateRepName(oldName, newName) pushes only when some assignment
\* actually changes (one has repName = oldName and newName differs from
\* oldName); in every other case past, present and future stay as they were.
C11_PushOnlyOnChange ==
  [][LET o == lastOp'.repName
         n == lastOp'.newName
     IN (lastOp'.name = "updateRepName" /\ updateRepName(o, n)) =>
          IF o # n /\ \E c \in DOMAIN present : present[c].repName = o
            THEN history'.past = Append(past, present)
            ELSE UNCHANGED history]_vars

\* C12: removeAssignment(code) deletes the key and leaves the other entries
\* alone; with the key absent present keeps its content, yet the old present
\* is appended to past (capped), future is cleared and canUndo holds.
C12_RemoveAssignment ==
  [][(lastOp'.name = "removeAssignment" /\ removeAssignment(lastOp'.codes[1])) =>
       LET code == lastOp'.codes[1]
       IN /\ DOMAIN history'.present = (DOMAIN present) \ {code}
          /\ \A c \in DOMAIN history'.present : history'.present[c] = present[c]
          /\ code \notin DOMAIN present => history'.present = present
          /\ history'.past = SliceLast(Append(past, present), MAX_HISTORY)
          /\ history'.future = <<>>
          /\ Len(history'.past) > 0]_vars

\* An absent code removed after an undo: an identical present was pushed and
\* the redo stack is gone.
C12_Witness ==
  /\ lastOp.name = "removeAssignment"
  /\ lastOp.codes[1] \notin DOMAIN present
  /\ pushes = 2 /\ Len(past) = 1
  /\ present = beforePush
  /\ future = <<>> /\ canUndo

\* C13: exporting a present the store's operations produced to the version
\* 2.0 envelope and picking that very file in a store mounted with nothing
\* stored gives a present with the same codes, each with the same repName
\* and assignedAt, and nothing of the envelope's other fields.
C13_ImportRoundTrip ==
  LET file == exportAssignmentsAsJSON(present, Reps, now)
      fresh == ImportInto(FreshHistory, file, now).present
  IN /\ DOMAIN fresh = DOMAIN present
     /\ \A c \in DOMAIN fresh : fresh[c] = present[c]
     /\ DOMAIN fresh \cap DOMAIN file.data.f = {}

C13_Witness ==
  /\ lastOp.name = "updateRepName" /\ lastOp.changed
  /\ Cardinality(DOMAIN present) = 2
  /\ \E c \in DOMAIN present : present[c].assignedAt # now
  /\ Accepted(parseImportedJSON(exportAssignmentsAsJSON(present, Reps, now), now))
  /\ ImportInto(FreshHistory, exportAssignmentsAsJSON(present, Reps, now), now).present
       = present
\* A JSON value that is an object with a string repName.
IsEntryObject(v) ==
  v.t = "object" /\ "repName" \in DOMAIN v.f /\ v.f["repName"].t = "string"

\* What lastOp names after a file was picked: the import, or the pick itself
\* when the file was rejected.
FileOpNames == {"importAssignments", "handleFileChange"}

\* The files whose text is a JSON object.
ObjectFiles == {f \in Files : f.parses /\ f.data.t = "object"}

\* C14, as stated: an object that has version and assignments is read through
\* its assignments field, any other object as a bare map; the result holds
\* exactly the entries that are objects with a string repName, with that
\* repName, with the file's assignedAt when the entry has one and the time of
\* the import when it has none; the other entries do not make the import fail.
C14_AsStated ==
  [][\A f \in ObjectFiles :
       (lastOp'.name \in FileOpNames /\ handleFileChange(f)) =>
         LET r == parseImportedJSON(f, now)
             src == IF {"version", "assignments"} \subseteq DOMAIN f.data.f
                      THEN f.data.f["assignments"] ELSE f.data
             es == ObjectEntries(src)
         IN /\ r.error = ""
            /\ DOMAIN r.assignments = {k \in DOMAIN es : IsEntryObject(es[k])}
            /\ \A k \in DOMAIN r.assignments :
                 /\ r.assignments[k].repName = es[k].f["repName"].s
                 /\ JIso(r.assignments[k].assignedAt) =
                      IF "assignedAt" \in DOMAIN es[k].f
                        THEN es[k].f["assignedAt"] ELSE JIso(now)]_vars

\* C14, amended: the envelope is read through its assignments field when its
\* version and assignments are both truthy, and assignedAt is kept when it is
\* truthy; an empty, null or zero assignedAt is stamped like a missing one.
\* An accepted result becomes the new present.
C14_ImportValidation ==
  [][\A f \in ObjectFiles :
       (lastOp'.name \in FileOpNames /\ handleFileChange(f)) =>
         LET r == parseImportedJSON(f, now)
             src == IF Truthy(Get(f.data, "version")) /\ Truthy(Get(f.data, "assignments"))
                      THEN f.data.f["assignments"] ELSE f.data
             es == ObjectEntries(src)
         IN /\ r.error = ""
            /\ DOMAIN r.assignments = {k \in DOMAIN es : IsEntryObject(es[k])}
            /\ \A k \in DOMAIN r.assignments :
                 /\ r.assignments[k].repName = es[k].f["repName"].s
                 /\ JIso(r.assignments[k].assignedAt) =
                      IF Truthy(Get(es[k], "assignedAt"))
                        THEN es[k].f["assignedAt"] ELSE JIso(now)
            /\ Cardinality(DOMAIN r.assignments) # 0 =>
                 history'.present = r.assignments]_vars

\* A file with a null entry and an entry without assignedAt has been imported:
\* the null entry is gone, the other one is stamped with the time of the import.
C14_Witness ==
  /\ lastOp.name = "importAssignments"
  /\ now = 2
  /\ \E f \in ObjectFiles :
       /\ \E k \in DOMAIN f.data.f : f.data.f[k] = JNull
       /\ \E k \in DOMAIN f.data.f :
            /\ IsEntryObject(f.data.f[k])
            /\ "assignedAt" \notin DOMAIN f.data.f[k].f
            /\ k \in DOMAIN present /\ present[k].assignedAt = now
       /\ \E k \in DOMAIN present : present[k].assignedAt # now
       /\ present = parseImportedJSON(f, now).assignments
       /\ DOMAIN present # DOMAIN f.data.f

\* The files the import rejects: the text does not parse, the value is not an
\* object (typeof), or no entry is valid.
RejectedFiles ==
  {f \in Files : \/ ~f.parses
                 \/ f.data.t \in {"null", "number", "string", "boolean"}
                 \/ DOMAIN parseImportedJSON(f, 0).assignments = {}}

WellFormedItem(st) ==
  /\ st.has
  /\ st.kind = "object"
  /\ \A c \in DOMAIN st.value : DOMAIN st.value[c] = {"repName", "assignedAt"}

\* C16: after a mount on a missing item or on anything but a well-formed map
\* present is the empty map and past and future are empty, and no later call
\* of the store ends in an exception.
C16_FailSoftLoad ==
  /\ (lastOp.name = "mount" /\ ~WellFormedItem(storage)) =>
       history = [past |-> <<>>, present |-> EmptyMap, future |-> <<>>]
  /\ ~thrown
\* C17: the changes made while a timer is pending form one burst, and a
\* burst is written once, however many changes it has: the count of writes
\* never passes one, and once the write is made the stored map is the present
\* the last change of the burst produced and no timer is left.
C17_DebounceCoalesces ==
  /\ burst.writes <= 1
  /\ burst.writes = 1 => storage = Item(present) /\ ~saveTimeout.armed

\* Two changes in one burst, then its single write.
C17_Witness ==
  /\ burst.many /\ burst.writes = 1
  /\ pushes = 2 /\ Len(past) = 2
  /\ storage = Item(present)
  /\ storage.value # past[2]

\* C18: the map a firing timer writes is the present of that moment; a timer
\* armed for a present that has been replaced does not fire.
C18_WritesPresent ==
  [][(saveTimerFires /\ Fired) =>
       /\ storage' = Item(present)
       /\ saveTimeout.present = present]_vars

\* An undo replaced the present of a pending timer, and the write that
\* followed carried the restored present, not the one undone.
C18_Witness ==
  /\ lastOp.name = "undo" /\ lastOp.changed
  /\ burst.many /\ burst.writes = 1
  /\ storage = Item(present)
  /\ storage.value # future[1]

C20_DirtyUntilWritten ==
  /\ burst.writes = 0 => isDirty /\ saveTimeout.armed
  /\ isDirty <=> saveTimeout.armed

\* After a completed write, two changes in a row: still dirty.
C20_Witness ==
  /\ lastSaved # <<>>
  /\ burst.many /\ burst.writes = 0
  /\ isDirty
  /\ storage # Item(present)
\* C21: when the write of a firing timer throws, nothing is raised to the
\* caller, history and the stored item stay as they were, lastSaved is the
\* time of the attempt, isDirty is false and no timer is left; the stored
\* item changes only in a step of a timer that a change had armed.
C21_FailedWriteSwallowed ==
  [][/\ (saveTimerFiresWriteThrows /\ Fired) =>
          /\ UNCHANGED <<history, storage, thrown, alertMsg>>
          /\ lastSaved' = <<now>>
          /\ ~isDirty'
          /\ ~saveTimeout'.armed
     /\ storage' # storage => saveTimeout.armed /\ storage' = Item(present)]_vars

\* A write failed after a change: the store reports a save, the stored item
\* is still the one of the mount.
C21_Witness ==
  /\ pushes = 1 /\ lastOp.name = "setAssignment"
  /\ ~isDirty /\ lastSaved # <<>> /\ ~saveTimeout.armed
  /\ storage # Item(present)
  /\ burst.writes = 1
\* C22: bulkAssign with an empty list, a second removal of the same code and
\* an assignment to a name outside the roster end without an exception, and
\* bulkAssign(<<>>, R) leaves past, present and future as they were.
C22_MisuseIsNoOp ==
  [][/\ (lastOp'.name \in {"bulkAssign", "removeAssignment", "setAssignment"}) => ~thrown'
     /\ (/\ lastOp'.name = "bulkAssign"
         /\ lastOp'.codes = <<>>
         /\ bulkAssign(<<>>, lastOp'.repName)) => UNCHANGED history]_vars
\* C26: two mutator calls in one event handler build on top of one another:
\* after setAssignment(c1, R) and setAssignment(c2, R) present is the old
\* present with both codes assigned to R, and after undo and setAssignment(c, R)
\* present is the restored snapshot with c assigned to R.
C26_BackToBackCalls ==
  [][/\ (/\ lastOp'.name = "setAssignmentTwice"
         /\ setAssignmentTwice(lastOp'.codes[1], lastOp'.codes[2], lastOp'.repName)) =>
          history'.present =
            Upsert(Upsert(present, lastOp'.codes[1], lastOp'.repName, now),
                   lastOp'.codes[2], lastOp'.repName, now)
     /\ (/\ lastOp'.name = "undoThenSetAssignment"
         /\ undoThenSetAssignment(lastOp'.codes[1], lastOp'.repName)) =>
          history'.present =
            Upsert(UndoState(history).present, lastOp'.codes[1], lastOp'.repName, now)]_vars

\* C29: a store that was mounted and has had no call since has written
\* nothing: isDirty is false, lastSaved is null and no write was made; a
\* write is made only after present has changed.
C29_NoWriteWithoutChange ==
  lastOp.name = "mount" => ~isDirty /\ lastSaved = <<>> /\ burst.writes = 0

\* C30: past and future together never hold more than MAX_HISTORY snapshots,
\* so neither does future alone, and a redo never finds past full.
C30_HistoryBounded ==
  /\ Len(past) + Len(future) <= MAX_HISTORY
  /\ Len(future) <= MAX_HISTORY
  /\ canRedo => Len(past) < MAX_HISTORY

\* After more pushes than the cap, some undone: both sequences are in use and
\* together they are at the cap.
C30_Witness ==
  /\ pushes > MAX_HISTORY
  /\ lastOp.name = "undo" /\ lastOp.changed
  /\ Len(past) + Len(future) = MAX_HISTORY
  /\ Len(future) > 1 /\ Len(past) > 1
\* C24: every name of the roster is non-empty after trimming and is its own
\* trimmed form; updateRepName with an empty or blank name leaves the roster
\* as it was, and any other updateRepName changes nothing but the name of
\* the representative with that id.
C24_NamesTrimmed ==
  [][/\ \A id \in DOMAIN reps' : reps'[id].name # "" /\ Trim(reps'[id].name) = reps'[id].name
     /\ (lastOp'.name = "useReps.updateRepName" /\ lastOp' # lastOp) =>
          /\ Trim(lastOp'.newName) = "" => UNCHANGED reps
          /\ DOMAIN reps' = DOMAIN reps
          /\ \A id \in DOMAIN reps :
               /\ id # lastOp'.repName => reps'[id] = reps[id]
               /\ reps'[id].color = reps[id].color
               /\ reps'[id].territoryName = reps[id].territoryName
          /\ (lastOp'.repName \in DOMAIN reps /\ Trim(lastOp'.newName) # "") =>
               reps'[lastOp'.repName].name = Trim(lastOp'.newName)]_vars

\* A name typed with blanks around it was stored trimmed, after a colour and
\* a territory had been set.
C24_Witness ==
  /\ lastOp.name = "useReps.updateRepName"
  /\ lastOp.newName = " Robert " /\ lastOp.changed
  /\ reps[lastOp.repName].name = "Robert"
  /\ reps[lastOp.repName].color # SALES_REPS[lastOp.repName].color
  /\ reps[lastOp.repName].territoryName = "West"
\* C23: when a representative who owns a region is renamed through the
\* panel's name field (the trimmed new name differs from the old one), then
\* right afterwards the roster carries the new name and every region of the
\* old name belongs to the new name.
C23_CoordinatedRename ==
  [][(/\ lastOp'.name = "saveEditing"
      /\ lastOp'.codes = <<"name">>
      /\ Trim(lastOp'.newName) # ""
      /\ Trim(lastOp'.newName) # reps[lastOp'.repName].name
      /\ owned(present, reps[lastOp'.repName].name) # {}) =>
        /\ reps'[lastOp'.repName].name = Trim(lastOp'.newName)
        /\ owned(present, reps[lastOp'.repName].name)
             \subseteq owned(history'.present, Trim(lastOp'.newName))]_vars
OthersKept(repName) ==
  \A c \in DOMAIN present :
    ~repNameIs(present[c], repName) =>
      c \in DOMAIN history'.present /\ history'.present[c].repName = present[c].repName

\* C27: through the Apply flow a region of another representative changes
\* owner only by 'Reassign': Apply with conflicts changes nothing, Apply
\* without conflicts and 'Leave as is' keep the owner of every region that
\* belongs to another representative at that moment.
C27_LeaveAsIsKeepsOwners ==
  [][/\ (lastOp'.name = "handleApply" /\ lastOp'.repName \in DOMAIN reps) =>
          /\ conflicts(present, reps[lastOp'.repName].name, lastOp'.codes) # {} =>
               UNCHANGED <<history, storage>> /\ pendingSync'.open
          /\ OthersKept(reps[lastOp'.repName].name)
     /\ lastOp'.name = "handleCancelReassign" => OthersKept(lastOp'.repName)]_vars
\* Reading a CSV text: the rows and fields as a reader splits them, commas
\* and newlines inside double quotes being part of the field.
RECURSIVE SplitCSV(_, _, _, _, _)
SplitCSV(ts, inQuotes, field, row, rows) ==
  IF ts = <<>> THEN Append(rows, Append(row, field))
  ELSE IF Head(ts) = "\"" THEN SplitCSV(Tail(ts), ~inQuotes, Append(field, "\""), row, rows)
  ELSE IF Head(ts) = "," /\ ~inQuotes THEN SplitCSV(Tail(ts), inQuotes, <<>>, Append(row, field), rows)
  ELSE IF Head(ts) = "\n" /\ ~inQuotes
    THEN SplitCSV(Tail(ts), inQuotes, <<>>, <<>>, Append(rows, Append(row, field)))
  ELSE SplitCSV(Tail(ts), inQuotes, Append(field, Head(ts)), row, rows)

\* Inside a quoted field every double quote comes twice and stands for one.
RECURSIVE QuotesPaired(_)
QuotesPaired(f) ==
  IF f = <<>> THEN TRUE
  ELSE IF Head(f) # "\"" THEN QuotesPaired(Tail(f))
  ELSE Len(f) >= 2 /\ f[2] = "\"" /\ QuotesPaired(Tail(Tail(f)))

RECURSIVE Undouble(_)
Undouble(f) ==
  IF f = <<>> THEN <<>>
  ELSE IF Head(f) = "\"" THEN <<"\"">> \o Undouble(Tail(Tail(f)))
  ELSE <<Head(f)>> \o Undouble(Tail(f))

\* Field f of the file is value v as the claim writes it.
WrittenAs(f, v) ==
  IF \E i \in DOMAIN v : v[i] \in {",", "\"", "\n"}
    THEN /\ Len(f) >= 2 /\ Head(f) = "\"" /\ f[Len(f)] = "\""
         /\ QuotesPaired(SubSeq(f, 2, Len(f) - 1))
         /\ Undouble(SubSeq(f, 2, Len(f) - 1)) = v
    ELSE f = v

CodeRank(c) == CHOOSE i \in DOMAIN CodeOrder : CodeOrder[i] = c

\* C25: the CSV file is the header row followed by one row per assignment in
\* ascending order of code; a field with a comma, a double quote or a newline
\* is wrapped in double quotes with its quotes doubled, any other field is
\* written verbatim; Jane, "JJ" Doe is written "Jane, ""JJ"" Doe".
C25_CsvExport ==
  lastOp.name = "handleExportCSV" =>
    LET rows == SplitCSV(csv, FALSE, <<>>, <<>>, <<>>)
        names == CodeToName(lastOp.repName)
    IN /\ Len(rows) = 1 + Cardinality(DOMAIN present)
       /\ rows[1] = [i \in 1..5 |-> <<headers[i]>>]
       /\ \A k \in 2..Len(rows) :
            /\ Len(rows[k]) = 5
            /\ Len(rows[k][1]) = 1 /\ rows[k][1][1] \in DOMAIN present
            /\ k > 2 => CodeRank(rows[k - 1][1][1]) < CodeRank(rows[k][1][1])
            /\ LET code == rows[k][1][1]
               IN /\ WrittenAs(rows[k][2], Chars(IF code \in DOMAIN names THEN names[code] ELSE code))
                  /\ WrittenAs(rows[k][3], Chars(present[code].repName))
                  /\ WrittenAs(rows[k][4],
                       Chars(TerritoryOf(reps, present[code].repName, Len(RepOrder))))
                  /\ WrittenAs(rows[k][5], <<ToString(present[code].assignedAt)>>)
                  /\ present[code].repName = "Jane, \"JJ\" Doe" =>
                       rows[k][3] = <<"\"", "Jane", ",", " ", "\"", "\"", "JJ", "\"", "\"",
                                      " Doe", "\"">>

\* A file of three rows was exported, with a name holding a comma and quotes,
\* a name holding a newline and a territory holding a comma.
C25_Witness ==
  /\ lastOp.name = "handleExportCSV"
  /\ Cardinality(DOMAIN present) = 2
  /\ \E c \in DOMAIN present : present[c].repName = "Jane, \"JJ\" Doe"
  /\ \E c \in DOMAIN present :
       /\ present[c].repName = "Ann\nLee"
       /\ TerritoryOf(reps, "Ann\nLee", Len(RepOrder)) = "West, North"
====
